---------------------------- MODULE Spec2Model ----------------------------
(***************************************************************************)
(* A model of pygamepopping: the coordinate transforms, the Shape          *)
(* wrappers over Box2D bodies, the ShapeRegistry, the KeyQuery input       *)
(* tracker (src/model.py) and the frame loop of the game                   *)
(* (src/HardModeSingleButton(D).py).                                       *)
(*                                                                         *)
(* Python floats are modelled as exact rationals <<n, d>> (d > 0, lowest   *)
(* terms), so the conversions are the arithmetic the code writes, without  *)
(* the rounding of the float32 fields of a b2Vec2.                         *)
(***************************************************************************)
EXTENDS Integers, Sequences, FiniteSets, TLC

(***************************************************************************)
(* Program constants (src/settings.py, which src/model.py imports).        *)
(***************************************************************************)
PPM == 20
SCREEN_HEIGHT == 480

(***************************************************************************)
(* Bounds of the model.                                                    *)
(***************************************************************************)
MaxCoord == 1        \* pixel coordinates are drawn from 0..MaxCoord (and the documented examples)
MaxVel == 1          \* velocity components are drawn from {-MaxVel, 0, MaxVel}
MaxSize == 1         \* pixel sizes and radii are drawn from 1..MaxSize
MaxShapes == 2       \* Shapes that exist when the registry is exercised
MaxLen == 2          \* longest list passed to ShapeRegistry.add
MaxDestroy == 2      \* DestroyBody calls counted per body
MaxEvents == 2       \* events pygame.event.get() returns in one frame
NumSnowballs == 3    \* snowballs of the game (the game creates 500)
InitialTimer == 2    \* frames on the timer at the start (the game: TARGET_FPS * 5)

(***************************************************************************)
(* CollisionGroup has three auto() flags                                   *)
(* (src/HardModeSingleButton(D).py, lines 38-42).                          *)
(***************************************************************************)
NumGroups == 3

(***************************************************************************)
(* Exact rational arithmetic standing for Python float arithmetic.         *)
(***************************************************************************)
Abs(n) == IF n < 0 THEN -n ELSE n

RECURSIVE GCD(_, _)
GCD(a, b) == IF b = 0 THEN a ELSE GCD(b, a % b)

Norm(n, d) ==
    LET g == GCD(Abs(n), Abs(d))
        s == IF d < 0 THEN -1 ELSE 1
    IN  <<(s * n) \div g, (s * d) \div g>>

Rat(n) == <<n, 1>>
RAdd(a, b) == Norm(a[1] * b[2] + b[1] * a[2], a[2] * b[2])
RSub(a, b) == Norm(a[1] * b[2] - b[1] * a[2], a[2] * b[2])
RMul(a, b) == Norm(a[1] * b[1], a[2] * b[2])
RDiv(a, b) == Norm(a[1] * b[2], a[2] * b[1])
RNeg(a) == <<-a[1], a[2]>>
RatV(v) == <<Rat(v[1]), Rat(v[2])>>
VAdd(u, v) == <<RAdd(u[1], v[1]), RAdd(u[2], v[2])>>

(***************************************************************************)
(* Coordinate transforms (src/model.py, lines 11-41).                      *)
(***************************************************************************)
pixels_to_box2d(p) == RDiv(p, Rat(PPM))

pixels_to_box2d_v(v) == <<RDiv(v[1], Rat(PPM)), RDiv(v[2], Rat(PPM))>>

flip_y_position(v) == <<v[1], RSub(Rat(SCREEN_HEIGHT), v[2])>>

flip_y_velocity(v) == <<v[1], RNeg(v[2])>>

box2d_to_pixels_v(v) == <<RMul(v[1], Rat(PPM)), RMul(v[2], Rat(PPM))>>

box2d_to_pixels(p) == RMul(p, Rat(PPM))


(***************************************************************************)
(* State.                                                                  *)
(*   objs            the Shape objects that exist, by identity             *)
(*   world           bodies the b2World holds                              *)
(*   destroy_calls   per body, how often world.DestroyBody was called      *)
(*   contacts        world.contacts after the last world.Step              *)
(*   shapes          ShapeRegistry.shapes                                  *)
(*   drawn           the shapes whose draw the last draw_shapes invoked    *)
(*   filter_args     per shape, the arguments of its last                  *)
(*                   set_collision_group call                              *)
(*   op              the operation that produced the current state         *)
(*   io              the KeyQuery of main                                  *)
(*   game_objects    the module-level list game_objects                    *)
(*   loop            main's locals (timer, start_game, running), its       *)
(*                   position pc and frame_log, the calls made so far in   *)
(*                   the current frame                                     *)
(*   marks           when a KeyQuery is exercised on its own: per key the  *)
(*                   last mark call, and the keys marked pressed and       *)
(*                   released since the last clear_pressed                 *)
(***************************************************************************)
VARIABLES objs, world, destroy_calls, contacts, shapes, drawn,
          filter_args, op, io, game_objects, loop, marks

vars == <<objs, world, destroy_calls, contacts, shapes, drawn,
          filter_args, op, io, game_objects, loop, marks>>

mainVars == <<io, game_objects, loop, marks>>

worldVars == <<world, destroy_calls, contacts>>
regVars == <<shapes, drawn>>

(***************************************************************************)
(* CollisionType and CollisionInfo (src/model.py, lines 269-286).          *)
(***************************************************************************)
CollisionType == {"Static", "Kinematic", "Dynamic"}

CollisionInfo(density, friction, restitution) ==
    [none |-> FALSE, density |-> density, friction |-> friction,
     restitution |-> restitution]

\* The collision_info=None that the Static* and Kinematic* constructors pass.
NoneInfo == [none |-> TRUE, density |-> 0, friction |-> 0, restitution |-> 0]

WHITE == <<255, 255, 255, 255>>
Zero2 == <<Rat(0), Rat(0)>>

(***************************************************************************)
(* The b2World factory calls the constructors make: CreateStaticBody,      *)
(* CreateKinematicBody (shapes=...) and CreateDynamicBody (fixtures=       *)
(* b2FixtureDef(shape, density, friction, restitution)).  Each yields a    *)
(* body with one fixture; its filter starts as "collide with everything"   *)
(* (docstring of set_collision_group) and its userData is then set to the  *)
(* Shape itself.                                                           *)
(***************************************************************************)
DefaultFilter == [categoryBits |-> 1, maskBits |-> 65535]

\* a body whose fixture's userData is never set (it stays None)
CreateBody_no_userData(self, collision_type, position, shape, collision_info) ==
    [type |-> collision_type,
     position |-> position,
     linearVelocity |-> Zero2,
     angularVelocity |-> 0,
     fixtures |-> << [shape |-> shape,
                      material |-> IF collision_type = "Dynamic"
                                   THEN collision_info ELSE NoneInfo,
                      filterData |-> DefaultFilter,
                      userData |-> 0] >>]

CreateBody(self, collision_type, position, shape, collision_info) ==
    [type |-> collision_type,
     position |-> position,
     linearVelocity |-> Zero2,
     angularVelocity |-> 0,
     fixtures |-> << [shape |-> shape,
                      material |-> IF collision_type = "Dynamic"
                                   THEN collision_info ELSE NoneInfo,
                      filterData |-> DefaultFilter,
                      userData |-> self] >>]

(***************************************************************************)
(* __Circle.__init__ (src/model.py, lines 289-330).                        *)
(***************************************************************************)
Circle_init(self, position, radius, collision_type, collision_info, colour) ==
    LET pos == pixels_to_box2d_v(flip_y_position(position))
        r == pixels_to_box2d(radius)
        shape == [type |-> "b2CircleShape", radius |-> r, pos |-> Zero2]
    IN  [kind |-> "Circle",
         colour |-> colour,
         shape |-> shape,
         body |-> CreateBody(self, collision_type, pos, shape, collision_info)]

(***************************************************************************)
(* __Rectangle.__init__ (src/model.py, lines 393-442).  b2PolygonShape     *)
(* (box=(hx, hy)) is the box of half-extents hx, hy about the origin.      *)
(***************************************************************************)
\* a rectangle that keeps the top-left corner as its centre
RectangleCentre_corner(position, size) == position

RectangleCentre(position, size) ==
    <<RAdd(position[1], RDiv(size[1], Rat(2))),
      RAdd(position[2], RDiv(size[2], Rat(2)))>>

Rectangle_init(self, position, size, collision_type, collision_info, colour) ==
    LET centre == RectangleCentre(position, size)
        pos == pixels_to_box2d_v(flip_y_position(centre))
        half == <<RDiv(size[1], Rat(2)), RDiv(size[2], Rat(2))>>
        box == pixels_to_box2d_v(half)
        shape == [type |-> "b2PolygonShape",
                  box |-> box,
                  vertices |-> << <<RNeg(box[1]), RNeg(box[2])>>,
                                  <<box[1], RNeg(box[2])>>,
                                  <<box[1], box[2]>>,
                                  <<RNeg(box[1]), box[2]>> >>]
    IN  [kind |-> "Rectangle",
         colour |-> colour,
         shape |-> shape,
         body |-> CreateBody(self, collision_type, pos, shape, collision_info)]

(***************************************************************************)
(* __Line.__init__ (src/model.py, lines 501-552).  The body is created     *)
(* without a position, so it sits at the engine's origin.                  *)
(***************************************************************************)
\* a twin offset by one metre after the conversion instead of one pixel before it
LineTwin_after_flip(point) ==
    VAdd(pixels_to_box2d_v(flip_y_position(point)), RatV(<<0, 1>>))

\* point_a2, point_b2: the endpoint one pixel further down the screen
LineTwin(point) ==
    pixels_to_box2d_v(flip_y_position(<<point[1], RAdd(point[2], Rat(1))>>))

Line_init(self, point_a, point_b, collision_type, collision_info, colour) ==
    LET a == pixels_to_box2d_v(flip_y_position(point_a))
        b == pixels_to_box2d_v(flip_y_position(point_b))
        a2 == LineTwin(point_a)
        b2 == LineTwin(point_b)
        shape == [type |-> "b2EdgeShape", vertices |-> <<a, b>>]
        polygon_shape == [type |-> "b2PolygonShape", vertices |-> <<a, a2, b, b2>>]
    IN  IF collision_type = "Dynamic"
        THEN [kind |-> "Line", colour |-> colour, shape |-> shape,
              point_a |-> a, point_b |-> b, point_a2 |-> a2, point_b2 |-> b2,
              is_secretly_polygon |-> TRUE,
              polygon_shape |-> polygon_shape,
              body |-> CreateBody(self, collision_type, Zero2, polygon_shape,
                                  collision_info)]
        ELSE [kind |-> "Line", colour |-> colour, shape |-> shape,
              point_a |-> a, point_b |-> b, point_a2 |-> a2, point_b2 |-> b2,
              is_secretly_polygon |-> FALSE,
              body |-> CreateBody(self, collision_type, Zero2, shape,
                                  collision_info)]

(***************************************************************************)
(* __Polygon.__init__ (src/model.py, lines 624-660).                       *)
(***************************************************************************)
Polygon_init(self, vertices, collision_type, collision_info, colour) ==
    LET box2d_vertices == [i \in DOMAIN vertices |->
                              pixels_to_box2d_v(flip_y_position(vertices[i]))]
        shape == [type |-> "b2PolygonShape", vertices |-> box2d_vertices]
    IN  [kind |-> "Polygon",
         colour |-> colour,
         shape |-> shape,
         body |-> CreateBody(self, collision_type, Zero2, shape, collision_info)]

(***************************************************************************)
(* Shape accessors (src/model.py, lines 108-189).  A setter is the Shape   *)
(* after the call.                                                         *)
(***************************************************************************)
b2_get_body(o) == o.body

b2_get_fixture(o) == b2_get_body(o).fixtures[1]

get_position(o) == flip_y_position(box2d_to_pixels_v(b2_get_body(o).position))

\* a set_position that forgets the Y flip
set_position_noflip(o, position) ==
    [o EXCEPT !.body.position = pixels_to_box2d_v(position)]

set_position(o, position) ==
    [o EXCEPT !.body.position = pixels_to_box2d_v(flip_y_position(position))]

get_velocity(o) == box2d_to_pixels_v(flip_y_velocity(b2_get_body(o).linearVelocity))

\* a set_velocity that flips the velocity as if it were a position
set_velocity_as_position(o, velocity) ==
    [o EXCEPT !.body.linearVelocity = pixels_to_box2d_v(flip_y_position(velocity))]

set_velocity(o, velocity) ==
    [o EXCEPT !.body.linearVelocity = pixels_to_box2d_v(flip_y_velocity(velocity))]

(***************************************************************************)
(* The other setters of Shape (src/model.py, lines 165-236), as the change *)
(* they make to the Shape, and what each set_* call returns: the 'return   *)
(* self' that ends the method, or None where the method ends without a     *)
(* return statement.  None is written 0, which is no Shape's identity.     *)
(***************************************************************************)
set_colour(o, colour) == [o EXCEPT !.colour = colour]

set_angular_velocity(o, angular_velocity) ==
    [o EXCEPT !.body.angularVelocity = angular_velocity]

set_density(o, density) ==
    [o EXCEPT !.body.fixtures[1].material.density = density]

set_friction(o, friction) ==
    [o EXCEPT !.body.fixtures[1].material.friction = friction]

set_restitution(o, restitution) ==
    [o EXCEPT !.body.fixtures[1].material.restitution = restitution]

None == 0

Setters == {"set_colour", "set_position", "set_velocity",
            "set_angular_velocity", "set_density", "set_friction",
            "set_restitution"}

returned(setter, self) ==
    CASE setter = "set_colour" -> self
      [] setter = "set_position" -> self
      [] setter = "set_velocity" -> self
      [] setter = "set_angular_velocity" -> self
      [] setter = "set_density" -> self
      [] setter = "set_friction" -> self
      [] setter = "set_restitution" -> None

(***************************************************************************)
(* Shape.set_collision_group (src/model.py, lines 121-159): the filter of  *)
(* the one fixture becomes b2Filter(categoryBits=my_group.value,           *)
(* maskBits=can_collide_with_groups.value).  A Flag is modelled by its     *)
(* value.                                                                  *)
(***************************************************************************)
\* a set_collision_group that sets the category and leaves the mask alone
set_collision_group_category_only(o, my_group, can_collide_with_groups) ==
    [o EXCEPT !.body.fixtures[1].filterData.categoryBits = my_group]

set_collision_group(o, my_group, can_collide_with_groups) ==
    [o EXCEPT !.body.fixtures[1].filterData =
                  [categoryBits |-> my_group,
                   maskBits |-> can_collide_with_groups]]

RECURSIVE BitAnd(_, _)
BitAnd(a, b) ==
    IF a = 0 \/ b = 0 THEN 0
    ELSE (a % 2) * (b % 2) + 2 * BitAnd(a \div 2, b \div 2)

\* The engine's filter as the docstring of set_collision_group states it:
\* "Collision must be allowed both ways".
ShouldCollide(fixtureA, fixtureB) ==
    /\ BitAnd(fixtureA.filterData.maskBits, fixtureB.filterData.categoryBits) # 0
    /\ BitAnd(fixtureA.filterData.categoryBits, fixtureB.filterData.maskBits) # 0

(***************************************************************************)
(* draw of each kind (src/model.py, lines 332-348, 444-458, 554-580,       *)
(* 662-676): the pygame.draw call it issues.  The body's transform is its  *)
(* translation; no operation of the model rotates a body.                  *)
(***************************************************************************)
Transform(body, v) == VAdd(body.position, v)

ToScreen(body, v) == flip_y_position(box2d_to_pixels_v(Transform(body, v)))

draw(o) ==
    CASE o.kind = "Circle" ->
            [call |-> "circle", colour |-> o.colour,
             points |-> << ToScreen(o.body, o.shape.pos) >>,
             radius |-> box2d_to_pixels(o.shape.radius)]
      [] o.kind = "Line" ->
            [call |-> "line", colour |-> o.colour,
             points |-> << ToScreen(o.body, o.shape.vertices[1]),
                           ToScreen(o.body, o.shape.vertices[2]) >>,
             radius |-> Rat(1)]
      [] OTHER ->
            [call |-> "polygon", colour |-> o.colour,
             points |-> [i \in DOMAIN o.shape.vertices |->
                            ToScreen(o.body, o.shape.vertices[i])],
             radius |-> Rat(0)]


(***************************************************************************)
(* KeyQuery (src/model.py, lines 44-97).  None is the empty tuple.         *)
(***************************************************************************)
KeyQuery_init ==
    [keys_down |-> {}, keys_pressed |-> {}, keys_released |-> {},
     mouse_relative |-> <<>>]

is_key_down(q, key) == key \in q.keys_down

is_key_pressed(q, key) == key \in q.keys_pressed

is_key_released(q, key) == key \in q.keys_released

mark_pressed(q, key) ==
    [q EXCEPT !.keys_down = @ \cup {key}, !.keys_pressed = @ \cup {key}]

mark_released(q, key) ==
    [q EXCEPT !.keys_down = @ \ {key}, !.keys_released = @ \cup {key}]

\* a clear_pressed that clears all three sets
clear_pressed_all(q) ==
    [q EXCEPT !.keys_down = {}, !.keys_pressed = {}, !.keys_released = {}]

clear_pressed(q) == [q EXCEPT !.keys_pressed = {}, !.keys_released = {}]

mark_mouse_relative(q, rel) == [q EXCEPT !.mouse_relative = rel]

get_mouse_relative(q) == q.mouse_relative

K_RETURN == "K_RETURN"
K_d == "K_d"
K_ESCAPE == "K_ESCAPE"
Keys == {K_RETURN, K_d, K_ESCAPE}

NoMarks == [last |-> [k \in Keys |-> "none"], pressed |-> {}, released |-> {}]

\* the main-loop state of a run in which main is not running
MainIdle ==
    /\ marks = NoMarks
    /\ io = KeyQuery_init
    /\ game_objects = <<>>
    /\ loop = [pc |-> "idle", timer |-> 0, start_game |-> FALSE,
               running |-> FALSE, frame_log |-> <<>>, frames_started |-> 0]

(***************************************************************************)
(* Inputs the operations are tried on.                                     *)
(***************************************************************************)
Pixels == {RatV(<<x, y>>) : x \in 0..MaxCoord, y \in 0..MaxCoord}
Velocities == {RatV(<<x, y>>) : x \in {-MaxVel, 0, MaxVel}, y \in {-MaxVel, 0, MaxVel}}
Sizes == {RatV(<<w, h>>) : w \in 1..MaxSize, h \in 1..MaxSize}
\* the rectangle of the documented example: top-left (5, 5), size (20, 10)
RectCorners == Pixels \cup {RatV(<<5, 5>>)}
RectSizes == Sizes \cup {RatV(<<20, 10>>)}
Radii == {Rat(r) : r \in 1..MaxSize}
Triangle(p) == <<p, VAdd(p, RatV(<<1, 0>>)), VAdd(p, RatV(<<0, 1>>))>>

NoShape == [kind |-> "None"]
NoOp == [name |-> "init", self |-> 0, arg |-> <<>>]
NoArgs == [set |-> FALSE, my_group |-> 0, can_collide_with_groups |-> 0]

InfoFor(collision_type) ==
    IF collision_type = "Dynamic" THEN CollisionInfo(1, 0, 1) ELSE NoneInfo

Exists(s) == s \in DOMAIN objs /\ objs[s].kind # "None"

(***************************************************************************)
(* Construction of one Shape in a free slot: StaticCircle ...              *)
(* KinematicPolygon (src/model.py, lines 351-390, 461-498, 583-621,        *)
(* 679-713), each passing its CollisionType on to the kind's __init__.     *)
(***************************************************************************)
Construct(s, o, how) ==
    /\ s \in DOMAIN objs
    /\ objs[s].kind = "None"
    /\ objs' = [objs EXCEPT ![s] = o]
    /\ world' = world \cup {s}
    /\ op' = [name |-> "construct", self |-> s, arg |-> how]
    /\ UNCHANGED <<destroy_calls, contacts, shapes, drawn, filter_args, mainVars>>

NewCircle(s) ==
    \E ct \in CollisionType, position \in Pixels, radius \in Radii :
        Construct(s, Circle_init(s, position, radius, ct, InfoFor(ct), WHITE),
                  <<position, radius>>)

NewRectangle(s) ==
    \E ct \in CollisionType, position \in RectCorners, size \in RectSizes :
        Construct(s, Rectangle_init(s, position, size, ct, InfoFor(ct), WHITE),
                  <<position, size>>)

NewLine(s) ==
    \E ct \in CollisionType, point_a \in Pixels, point_b \in Pixels :
        Construct(s, Line_init(s, point_a, point_b, ct, InfoFor(ct), WHITE),
                  <<point_a, point_b>>)

NewPolygon(s) ==
    \E ct \in CollisionType, p \in Pixels :
        Construct(s, Polygon_init(s, Triangle(p), ct, InfoFor(ct), WHITE),
                  Triangle(p))

SetPosition(s) ==
    \E position \in Pixels :
        /\ Exists(s)
        /\ objs' = [objs EXCEPT ![s] = set_position(objs[s], position)]
        /\ op' = [name |-> "set_position", self |-> s, arg |-> position]
        /\ UNCHANGED <<worldVars, regVars, filter_args, mainVars>>

SetVelocity(s) ==
    \E velocity \in Velocities :
        /\ Exists(s)
        /\ objs' = [objs EXCEPT ![s] = set_velocity(objs[s], velocity)]
        /\ op' = [name |-> "set_velocity", self |-> s, arg |-> velocity]
        /\ UNCHANGED <<worldVars, regVars, filter_args, mainVars>>

(***************************************************************************)
(* A constructor called with a collision_type that is no member of         *)
(* CollisionType: the else branch of every kind's __init__,                *)
(* 'assert False, "Must use a valid collision type"' (src/model.py, lines  *)
(* 327-328, 439-440, 549-550, 657-658), which comes before any             *)
(* world.Create*Body call and leaves no Shape behind.                      *)
(***************************************************************************)
ShapeKinds == {"Circle", "Rectangle", "Line", "Polygon"}
InvalidTypes == {"None", "Bogus"}

\* a constructor without the else branch
ConstructorRaises_never(collision_type) == FALSE

ConstructorRaises(collision_type) ==
    ~(collision_type = "Static" \/ collision_type = "Kinematic"
      \/ collision_type = "Dynamic")

SampleGeometry(kind) ==
    CASE kind = "Circle" -> <<RatV(<<1, 1>>), Rat(1)>>
      [] kind = "Rectangle" -> <<RatV(<<5, 5>>), RatV(<<20, 10>>)>>
      [] kind = "Line" -> <<RatV(<<0, 0>>), RatV(<<1, 0>>)>>
      [] OTHER -> Triangle(RatV(<<0, 0>>))

Build(kind, self, collision_type) ==
    LET g == SampleGeometry(kind)
        info == InfoFor(collision_type)
    IN  CASE kind = "Circle" -> Circle_init(self, g[1], g[2], collision_type, info, WHITE)
          [] kind = "Rectangle" -> Rectangle_init(self, g[1], g[2], collision_type, info, WHITE)
          [] kind = "Line" -> Line_init(self, g[1], g[2], collision_type, info, WHITE)
          [] OTHER -> Polygon_init(self, g, collision_type, info, WHITE)

NewInvalid(s) ==
    \E kind \in ShapeKinds, collision_type \in InvalidTypes :
        IF ConstructorRaises(collision_type)
        THEN /\ s \in DOMAIN objs
             /\ objs[s].kind = "None"
             /\ op' = [name |-> "construct_raised", self |-> s,
                       arg |-> <<kind, collision_type>>,
                       before |-> [world |-> world, objs |-> objs]]
             /\ UNCHANGED <<objs, worldVars, regVars, filter_args, mainVars>>
        ELSE Construct(s, Build(kind, s, collision_type), SampleGeometry(kind))

(***************************************************************************)
(* The Shape API on one Shape: any constructor, then any setters.          *)
(***************************************************************************)
InitShape ==
    /\ objs = [s \in {1} |-> NoShape]
    /\ world = {}
    /\ destroy_calls = [s \in {1} |-> 0]
    /\ contacts = {}
    /\ shapes = {}
    /\ drawn = {}
    /\ filter_args = [s \in {1} |-> NoArgs]
    /\ op = NoOp
    /\ MainIdle

NextShape ==
    \/ NewCircle(1)
    \/ NewRectangle(1)
    \/ NewLine(1)
    \/ NewPolygon(1)
    \/ NewInvalid(1)
    \/ SetPosition(1)
    \/ SetVelocity(1)

SpecShape == InitShape /\ [][NextShape]_vars


(***************************************************************************)
(* Properties of the Shape API (SpecShape).                                *)
(***************************************************************************)
ToPixels(v) == flip_y_position(box2d_to_pixels_v(v))
Down1(p) == <<p[1], RAdd(p[2], Rat(1))>>

\* C7: right after set_position(P), get_position() is P and the body holds
\* (P.x / PPM, (SCREEN_HEIGHT - P.y) / PPM), whatever the shape kind and
\* motion kind.
C7_PositionRoundTrip ==
    op.name = "set_position" =>
        LET o == objs[op.self]
            P == op.arg
        IN  /\ get_position(o) = P
            /\ b2_get_body(o).position =
                   <<RDiv(P[1], Rat(PPM)),
                     RDiv(RSub(Rat(SCREEN_HEIGHT), P[2]), Rat(PPM))>>

C7_Witness ==
    /\ op.name = "set_position"
    /\ op.arg = RatV(<<1, 1>>)
    /\ objs[1].kind = "Polygon"
    /\ objs[1].body.type = "Kinematic"
    /\ objs[1].body.position = <<<<1, 20>>, <<479, 20>>>>

\* C8: right after set_velocity((vx, vy)), get_velocity() is (vx, vy) and the
\* body holds (vx / PPM, -vy / PPM): the Y sign is negated and nothing is
\* added.
C8_VelocitySignLaw ==
    op.name = "set_velocity" =>
        LET o == objs[op.self]
            v == op.arg
        IN  /\ get_velocity(o) = v
            /\ b2_get_body(o).linearVelocity =
                   <<RDiv(v[1], Rat(PPM)), RDiv(RNeg(v[2]), Rat(PPM))>>

C8_Witness ==
    /\ op.name = "set_velocity"
    /\ op.arg = RatV(<<1, -1>>)
    /\ objs[1].body.type = "Dynamic"
    /\ objs[1].body.linearVelocity = <<<<1, 20>>, <<1, 20>>>>

\* C9: a rectangle built from top-left (x, y) and size (w, h) reports the
\* position (x + w/2, y + h/2) right after construction and has half-extents
\* (w/2, h/2) in pixels; top-left (5, 5) with size (20, 10) gives (15, 10).
C9_RectangleCorner ==
    (op.name = "construct" /\ objs[op.self].kind = "Rectangle") =>
        LET o == objs[op.self]
            x == op.arg[1][1]
            y == op.arg[1][2]
            w == op.arg[2][1]
            h == op.arg[2][2]
            c == get_position(o)
            e == box2d_to_pixels_v(o.shape.box)
        IN  /\ RMul(Rat(2), c[1]) = RAdd(RMul(Rat(2), x), w)
            /\ RMul(Rat(2), c[2]) = RAdd(RMul(Rat(2), y), h)
            /\ RMul(Rat(2), e[1]) = w
            /\ RMul(Rat(2), e[2]) = h
            /\ (op.arg = <<RatV(<<5, 5>>), RatV(<<20, 10>>)>> => c = RatV(<<15, 10>>))

C9_Witness ==
    /\ op.name = "construct"
    /\ objs[1].kind = "Rectangle"
    /\ objs[1].body.type = "Static"
    /\ op.arg = <<RatV(<<5, 5>>), RatV(<<20, 10>>)>>
    /\ get_position(objs[1]) = RatV(<<15, 10>>)

\* C10: a Dynamic line from a to b has one fixture, a polygon whose four
\* vertices are, back in pixels, a, a+(0,1), b, b+(0,1); a Static or
\* Kinematic line has the two-vertex edge a-b as its fixture and no polygon;
\* draw issues the one line a-b in either case.
C10_LineDualRepresentation ==
    (op.name = "construct" /\ objs[op.self].kind = "Line") =>
        LET o == objs[op.self]
            a == op.arg[1]
            b == op.arg[2]
            fx == b2_get_body(o).fixtures
            pix == [i \in DOMAIN fx[1].shape.vertices |-> ToPixels(fx[1].shape.vertices[i])]
        IN  /\ Len(fx) = 1
            /\ draw(o).call = "line"
            /\ draw(o).points = <<a, b>>
            /\ IF b2_get_body(o).type = "Dynamic"
               THEN /\ o.is_secretly_polygon
                    /\ fx[1].shape.type = "b2PolygonShape"
                    /\ pix = <<a, Down1(a), b, Down1(b)>>
               ELSE /\ ~o.is_secretly_polygon
                    /\ "polygon_shape" \notin DOMAIN o
                    /\ fx[1].shape.type = "b2EdgeShape"
                    /\ pix = <<a, b>>

C10_Witness ==
    /\ op.name = "construct"
    /\ objs[1].kind = "Line"
    /\ objs[1].body.type = "Dynamic"
    /\ op.arg = <<RatV(<<0, 0>>), RatV(<<1, 0>>)>>
    /\ objs[1].polygon_shape.vertices[2] = <<Rat(0), <<479, 20>>>>


\* C11: a constructor of any kind given a motion kind other than Static,
\* Kinematic or Dynamic raises: no Shape with such a motion kind ever exists,
\* and the failed call leaves the world and the Shapes as they were.
C11_InvalidMotionKindRejected ==
    /\ \A s \in DOMAIN objs :
          Exists(s) => b2_get_body(objs[s]).type \in CollisionType
    /\ op.name = "construct_raised" =>
          /\ op.arg[2] \notin CollisionType
          /\ world = op.before.world
          /\ objs = op.before.objs
          /\ ~Exists(op.self)

C11_Witness ==
    /\ op.name = "construct_raised"
    /\ op.arg = <<"Line", "Bogus">>
    /\ world = {}
    /\ ~Exists(1)

\* C12: every Shape that exists, of any kind and motion kind, has a body
\* with exactly one fixture (so the assertion of b2_get_fixture holds), and
\* that fixture's userData is the Shape itself, for as long as the world
\* holds the body; the Shapes of a contact are found through it.
C12_OneFixtureOwnedBySelf ==
    /\ \A s \in DOMAIN objs :
          (Exists(s) /\ s \in world) =>
              /\ Len(b2_get_body(objs[s]).fixtures) = 1
              /\ b2_get_fixture(objs[s]).userData = s
    /\ \A pair \in contacts : \A b \in pair :
          b \in world => b2_get_fixture(objs[b]).userData = b

C12_Witness ==
    /\ op.name = "set_velocity"
    /\ objs[1].kind = "Polygon"
    /\ objs[1].body.type = "Dynamic"
    /\ 1 \in world
    /\ Len(objs[1].body.fixtures) = 1
    /\ objs[1].body.fixtures[1].userData = 1

(***************************************************************************)
(* ShapeRegistry (src/model.py, lines 239-266).                            *)
(***************************************************************************)
\* the for loop of add: one set insertion per element, in list order
RECURSIVE add_each(_, _)
add_each(live, list) ==
    IF list = <<>> THEN live
    ELSE add_each(live \cup {Head(list)}, Tail(list))

\* an add that replaces the live set by the shapes given
registry_add_replace(live, arg) ==
    add_each({}, IF arg.is_list THEN arg.items ELSE <<arg.items>>)

\* ShapeRegistry.add: the live set after add(arg); arg is a list of Shapes
\* (is_list) or one Shape, which add wraps in a list
registry_add(live, arg) ==
    add_each(live, IF arg.is_list THEN arg.items ELSE <<arg.items>>)

\* a delete without the membership test
registry_delete_unguarded(live, shape) ==
    [shapes |-> live \ {shape}, destroy |-> {shape}]

\* ShapeRegistry.delete: the live set after delete(shape) and the bodies it
\* hands to world.DestroyBody (a Shape's body carries the Shape's identity)
registry_delete(live, shape) ==
    IF shape \in live
    THEN [shapes |-> live \ {shape}, destroy |-> {shape}]
    ELSE [shapes |-> live, destroy |-> {}]

Before == [shapes |-> shapes, world |-> world, destroy_calls |-> destroy_calls]

Add(arg) ==
    /\ shapes' = registry_add(shapes, arg)
    /\ drawn' = {}
    /\ op' = [name |-> "add", self |-> 0, arg |-> arg, before |-> Before]
    /\ UNCHANGED <<objs, worldVars, filter_args, mainVars>>

\* world.DestroyBody(b) removes b from the world; the count records every
\* request, also one for a body that is already destroyed
Delete(shape) ==
    LET r == registry_delete(shapes, shape)
    IN  /\ \A b \in r.destroy : destroy_calls[b] < MaxDestroy
        /\ shapes' = r.shapes
        /\ world' = world \ r.destroy
        /\ destroy_calls' = [b \in DOMAIN destroy_calls |->
                                IF b \in r.destroy THEN destroy_calls[b] + 1
                                ELSE destroy_calls[b]]
        /\ drawn' = {}
        /\ op' = [name |-> "delete", self |-> 0, arg |-> shape, before |-> Before]
        /\ UNCHANGED <<objs, contacts, filter_args, mainVars>>

\* draw_shapes invokes draw on every Shape of the live set
DrawShapes ==
    /\ drawn' = shapes
    /\ op' = [name |-> "draw_shapes", self |-> 0, arg |-> <<>>, before |-> Before]
    /\ UNCHANGED <<objs, worldVars, shapes, filter_args, mainVars>>

(***************************************************************************)
(* The registry over MaxShapes constructed Shapes, under any sequence of   *)
(* add, delete and draw_shapes calls.                                      *)
(***************************************************************************)
RegIds == 1..MaxShapes

ListsOver(S) == UNION {[1..n -> S] : n \in 0..MaxLen}

AddArgs == {[is_list |-> FALSE, items |-> x] : x \in RegIds}
           \cup {[is_list |-> TRUE, items |-> l] : l \in ListsOver(RegIds)}

InitRegistry ==
    /\ objs = [i \in RegIds |->
                 Circle_init(i, RatV(<<i, 0>>), Rat(1), "Dynamic",
                             CollisionInfo(1, 1, 1), WHITE)]
    /\ world = RegIds
    /\ destroy_calls = [i \in RegIds |-> 0]
    /\ contacts = {}
    /\ shapes = {}
    /\ drawn = {}
    /\ filter_args = [i \in RegIds |-> NoArgs]
    /\ op = NoOp
    /\ MainIdle

NextRegistry ==
    \/ \E arg \in AddArgs : Add(arg)
    \/ \E shape \in RegIds : Delete(shape)
    \/ DrawShapes

SpecRegistry == InitRegistry /\ [][NextRegistry]_vars

Items(arg) ==
    IF arg.is_list THEN {arg.items[i] : i \in DOMAIN arg.items} ELSE {arg.items}

\* C1: whatever add and delete calls are made, DestroyBody is requested at
\* most once for any Shape's body.
C1_DestroyAtMostOnce == \A b \in DOMAIN destroy_calls : destroy_calls[b] <= 1

\* C2: once delete(S) has removed a registered S, the world no longer holds
\* S's body and no draw_shapes call invokes S.draw, whatever registry
\* operations follow.
C2_DeletedNeverDrawn ==
    \A s \in DOMAIN destroy_calls :
        destroy_calls[s] > 0 =>
            /\ s \notin world
            /\ (op.name = "draw_shapes" => s \notin drawn)

\* C5: add inserts by identity: the live set after add is the old one plus
\* the shapes given, so adding shapes that are all registered already (one
\* shape, or a list, also one that repeats a shape) changes nothing, and
\* add(S); add(S) leaves exactly S.
C5_AddIdempotent ==
    op.name = "add" =>
        /\ shapes = op.before.shapes \cup Items(op.arg)
        /\ (Items(op.arg) \subseteq op.before.shapes => shapes = op.before.shapes)
        /\ \A S \in RegIds :
              (op.before.shapes = {S} /\ Items(op.arg) = {S}) => Cardinality(shapes) = 1

C5_Witness ==
    /\ op.name = "add"
    /\ op.arg = [is_list |-> TRUE, items |-> <<1, 1>>]
    /\ op.before.shapes = {1}
    /\ shapes = {1}

\* C6: delete of a shape that is not in the live set changes neither the live
\* set nor the world and requests no DestroyBody.
C6_DeleteUnregisteredNoOp ==
    (op.name = "delete" /\ op.arg \notin op.before.shapes) =>
        /\ shapes = op.before.shapes
        /\ world = op.before.world
        /\ destroy_calls = op.before.destroy_calls

\* the second delete of delete(S); delete(S)
C6_Witness ==
    /\ op.name = "delete"
    /\ op.arg = 1
    /\ 1 \notin op.before.shapes
    /\ op.before.destroy_calls[1] = 1
    /\ destroy_calls[1] = 1


(***************************************************************************)
(* Collision groups: two Shapes, any set_collision_group calls, and        *)
(* world.Step, after which world.contacts holds some of the pairs of       *)
(* bodies of the world that the filter lets through (which of them touch   *)
(* is the engine's geometry, left open here).                              *)
(***************************************************************************)
RECURSIVE Pow2(_)
Pow2(n) == IF n = 0 THEN 1 ELSE 2 * Pow2(n - 1)

Groups == 0..(Pow2(NumGroups) - 1)

SetCollisionGroup(s) ==
    \E my_group \in Groups, can_collide_with_groups \in Groups :
        /\ Exists(s)
        /\ objs' = [objs EXCEPT ![s] =
                       set_collision_group(objs[s], my_group, can_collide_with_groups)]
        /\ filter_args' = [filter_args EXCEPT ![s] =
                              [set |-> TRUE, my_group |-> my_group,
                               can_collide_with_groups |-> can_collide_with_groups]]
        /\ op' = [name |-> "set_collision_group", self |-> s,
                  arg |-> <<my_group, can_collide_with_groups>>]
        /\ UNCHANGED <<worldVars, regVars, mainVars>>

FilteredPairs ==
    {pair \in SUBSET world :
        /\ Cardinality(pair) = 2
        /\ \E a \in pair, b \in pair :
              /\ a # b
              /\ ShouldCollide(b2_get_fixture(objs[a]), b2_get_fixture(objs[b]))}

WorldStep ==
    /\ contacts' \in SUBSET FilteredPairs
    /\ op' = [name |-> "Step", self |-> 0, arg |-> <<>>]
    /\ UNCHANGED <<objs, world, destroy_calls, regVars, filter_args, mainVars>>

InitFilter ==
    /\ objs = [i \in {1, 2} |->
                 IF i = 1
                 THEN Circle_init(1, RatV(<<5, 5>>), Rat(1), "Dynamic",
                                  CollisionInfo(1, 0, 1), WHITE)
                 ELSE Rectangle_init(2, RatV(<<0, 0>>), RatV(<<10, 10>>), "Static",
                                     NoneInfo, WHITE)]
    /\ world = {1, 2}
    /\ destroy_calls = [i \in {1, 2} |-> 0]
    /\ contacts = {}
    /\ shapes = {}
    /\ drawn = {}
    /\ filter_args = [i \in {1, 2} |-> NoArgs]
    /\ op = NoOp
    /\ MainIdle

NextFilter ==
    \/ SetCollisionGroup(1)
    \/ SetCollisionGroup(2)
    \/ WorldStep

SpecFilter == InitFilter /\ [][NextFilter]_vars

\* C4: set_collision_group stores own_group as the category bits and
\* collidable_with as the mask bits, and after a step two configured shapes
\* are in contact only if each one's group meets the other's collidable_with.
C4_CollisionBothWays ==
    /\ \A s \in DOMAIN objs :
          filter_args[s].set =>
              b2_get_fixture(objs[s]).filterData =
                  [categoryBits |-> filter_args[s].my_group,
                   maskBits |-> filter_args[s].can_collide_with_groups]
    /\ op.name = "Step" =>
          \A A \in DOMAIN objs, B \in DOMAIN objs :
              ({A, B} \in contacts /\ A # B /\ filter_args[A].set /\ filter_args[B].set) =>
                  /\ BitAnd(filter_args[A].my_group, filter_args[B].can_collide_with_groups) # 0
                  /\ BitAnd(filter_args[B].my_group, filter_args[A].can_collide_with_groups) # 0

\* A in group 1 colliding with group 2, B in group 2 colliding with group 1
C4_Witness ==
    /\ op.name = "Step"
    /\ contacts = {{1, 2}}
    /\ filter_args[1] = [set |-> TRUE, my_group |-> 1, can_collide_with_groups |-> 2]
    /\ filter_args[2] = [set |-> TRUE, my_group |-> 2, can_collide_with_groups |-> 1]


(***************************************************************************)
(* The game (src/HardModeSingleButton(D).py).  Module level, lines 24-50:  *)
(* four wall lines and the snowballs, all in group Default and colliding   *)
(* with ALL().  main, lines 57-71: timer, KeyQuery, registry holding       *)
(* game_objects, running, start_game.                                      *)
(***************************************************************************)
GAME_WIDTH == 900
GAME_HEIGHT == 600
ORANGE == <<255, 150, 100, 255>>
Default == 1
ALL == Pow2(NumGroups) - 1      \* ~CollisionGroup(0): every flag of the enum

Walls ==
    << <<RatV(<<10, 10>>), RatV(<<GAME_WIDTH - 10, 10>>)>>,
       <<RatV(<<GAME_WIDTH - 10, 10>>), RatV(<<GAME_WIDTH - 10, GAME_HEIGHT - 10>>)>>,
       <<RatV(<<GAME_WIDTH - 10, GAME_HEIGHT - 10>>), RatV(<<10, GAME_HEIGHT - 10>>)>>,
       <<RatV(<<10, GAME_HEIGHT - 10>>), RatV(<<10, 10>>)>> >>

GameIds == 1..(4 + NumSnowballs)

\* random.randint(100, 500) is taken at its lower end: nothing the loop
\* decides depends on where a snowball is
GameObject(i) ==
    set_collision_group(
        IF i <= 4
        THEN Line_init(i, Walls[i][1], Walls[i][2], "Static", NoneInfo, ORANGE)
        ELSE Circle_init(i, RatV(<<100, 20>>), Rat(10), "Dynamic",
                         CollisionInfo(1, 1, 1), WHITE),
        Default, ALL)

Events == {[type |-> "QUIT", key |-> "none"]}
          \cup {[type |-> t, key |-> k] : t \in {"KEYDOWN", "KEYUP"}, k \in Keys}

EventLists == UNION {[1..n -> Events] : n \in 0..MaxEvents}

MouseRels == {<<0, 0>>, <<1, -1>>}

Called(what) == [name |-> what, self |-> 0, arg |-> <<>>]

InitMain ==
    /\ objs = [i \in GameIds |-> GameObject(i)]
    /\ world = GameIds
    /\ destroy_calls = [i \in GameIds |-> 0]
    /\ contacts = {}
    /\ game_objects = [i \in GameIds |-> i]
    /\ shapes = registry_add({}, [is_list |-> TRUE, items |-> [i \in GameIds |-> i]])
    /\ drawn = {}
    /\ filter_args = [i \in GameIds |->
                        [set |-> TRUE, my_group |-> Default,
                         can_collide_with_groups |-> ALL]]
    /\ io = KeyQuery_init
    /\ marks = NoMarks
    /\ loop = [pc |-> "clear_pressed", timer |-> InitialTimer,
               start_game |-> FALSE, running |-> TRUE, frame_log |-> <<>>,
               frames_started |-> 0]
    /\ op = Called("main")

\* line 73
ClearPressed ==
    /\ loop.pc = "clear_pressed"
    /\ io' = clear_pressed(io)
    /\ loop' = [loop EXCEPT !.pc = "mark_mouse_relative",
                            !.frame_log = <<"clear_pressed">>]
    /\ op' = Called("clear_pressed")
    /\ UNCHANGED <<objs, worldVars, regVars, filter_args, game_objects, marks>>

\* line 74
MarkMouseRelative ==
    /\ loop.pc = "mark_mouse_relative"
    /\ \E rel \in MouseRels : io' = mark_mouse_relative(io, rel)
    /\ loop' = [loop EXCEPT !.pc = "events",
                            !.frame_log = Append(@, "mark_mouse_relative")]
    /\ op' = Called("mark_mouse_relative")
    /\ UNCHANGED <<objs, worldVars, regVars, filter_args, game_objects, marks>>

\* lines 75-83: the for loop over the events of this frame; QUIT or
\* KEYDOWN K_ESCAPE clears running and leaves the for loop
RECURSIVE process_events(_, _)
process_events(st, events) ==
    IF events = <<>> THEN st
    ELSE LET event == Head(events)
         IN  IF event.type = "QUIT" \/ (event.type = "KEYDOWN" /\ event.key = K_ESCAPE)
             THEN [st EXCEPT !.running = FALSE]
             ELSE process_events(
                      IF event.type = "KEYDOWN"
                      THEN [st EXCEPT !.io = mark_pressed(@, event.key)]
                      ELSE IF event.type = "KEYUP"
                      THEN [st EXCEPT !.io = mark_released(@, event.key)]
                      ELSE st,
                      Tail(events))

PollEvents ==
    /\ loop.pc = "events"
    /\ \E events \in EventLists :
          LET st == process_events([io |-> io, running |-> loop.running], events)
          IN  /\ io' = st.io
              /\ loop' = [loop EXCEPT !.pc = "logic", !.running = st.running,
                                      !.frame_log = Append(@, "event_get")]
    /\ op' = Called("event_get")
    /\ UNCHANGED <<objs, worldVars, regVars, filter_args, game_objects, marks>>

\* line 101, under the tests of lines 97 and 98
next_timer_unstarted(start_game, timer, live) ==
    IF Cardinality(live) # 4 THEN timer - 1 ELSE timer

next_timer(start_game, timer, live) ==
    IF start_game /\ Cardinality(live) # 4 THEN timer - 1 ELSE timer

\* a pop(0), which takes the first element of the list
pop_first(list) == [item |-> Head(list), rest |-> Tail(list)]

\* list.pop() of line 112: the last element, and the list without it
pop(list) == [item |-> list[Len(list)], rest |-> SubSeq(list, 1, Len(list) - 1)]

\* lines 86-112: what one frame's game logic decides, from the KeyQuery q,
\* the loop's locals lp, the registry's live set and the game_objects list.
\* left_right, up_down and mouse_relo (lines 86-92) are computed and never
\* used.
game_logic(q, lp, live, objects) ==
    LET start_game == lp.start_game \/ is_key_pressed(q, K_RETURN)
        timer == next_timer(start_game, lp.timer, live)
        running == IF start_game /\ timer = 0 THEN FALSE ELSE lp.running
        pops == start_game /\ is_key_pressed(q, K_d) /\ Cardinality(live) > 4
        r == IF pops
             THEN registry_delete(live, pop(objects).item)
             ELSE [shapes |-> live, destroy |-> {}]
    IN  [start_game |-> start_game, timer |-> timer, running |-> running,
         pops |-> pops, shapes |-> r.shapes, destroy |-> r.destroy,
         game_objects |-> IF pops THEN pop(objects).rest ELSE objects]

GameLogic ==
    LET g == game_logic(io, loop, shapes, game_objects)
    IN  /\ loop.pc = "logic"
        /\ loop' = [loop EXCEPT !.pc = "draw", !.start_game = g.start_game,
                                !.timer = g.timer, !.running = g.running,
                                !.frames_started = IF g.start_game /\ @ <= InitialTimer
                                                    THEN @ + 1 ELSE @,
                                !.frame_log = IF g.pops THEN Append(@, "delete") ELSE @]
        /\ game_objects' = g.game_objects
        /\ shapes' = g.shapes
        /\ world' = world \ g.destroy
        /\ destroy_calls' = [b \in DOMAIN destroy_calls |->
                                IF b \in g.destroy THEN destroy_calls[b] + 1
                                ELSE destroy_calls[b]]
        /\ op' = [name |-> "logic", self |-> 0, arg |-> <<>>,
                  before |-> Before, was |-> loop, objects |-> game_objects]
        /\ UNCHANGED <<objs, contacts, drawn, filter_args, io, marks>>

\* lines 115-116: screen.fill, shape_registry.draw_shapes(screen)
DrawFrame ==
    /\ loop.pc = "draw"
    /\ drawn' = shapes
    /\ loop' = [loop EXCEPT !.pc = "step", !.frame_log = Append(@, "draw_shapes")]
    /\ op' = Called("draw_shapes")
    /\ UNCHANGED <<objs, worldVars, shapes, filter_args, io, game_objects, marks>>

\* lines 123-131: world.Step, then the loop over world.contacts, which reads
\* the two fixtures' userData and changes nothing.  Of the contacts the
\* engine may report, the two extremes are kept: none, and every pair the
\* filter lets through.
StepWorld ==
    /\ loop.pc = "step"
    /\ contacts' \in {{}, FilteredPairs}
    /\ drawn' = {}
    /\ loop' = [loop EXCEPT !.pc = "tick", !.frame_log = Append(@, "Step")]
    /\ op' = Called("Step")
    /\ UNCHANGED <<objs, world, destroy_calls, shapes, filter_args, io, game_objects, marks>>

\* lines 134-135 and the loop test of line 72
FlipTick ==
    /\ loop.pc = "tick"
    /\ loop' = [loop EXCEPT !.pc = IF loop.running THEN "clear_pressed" ELSE "quit",
                            !.frame_log = Append(@, "tick")]
    /\ op' = Called("tick")
    /\ UNCHANGED <<objs, worldVars, regVars, filter_args, io, game_objects, marks>>

\* lines 137-138
Quit ==
    /\ loop.pc = "quit"
    /\ loop' = [loop EXCEPT !.pc = "done"]
    /\ op' = Called("quit")
    /\ UNCHANGED <<objs, worldVars, regVars, filter_args, io, game_objects, marks>>

NextMain ==
    \/ ClearPressed
    \/ MarkMouseRelative
    \/ PollEvents
    \/ GameLogic
    \/ DrawFrame
    \/ StepWorld
    \/ FlipTick
    \/ Quit

SpecMain == InitMain /\ [][NextMain]_vars

\* the place of a call in the frame's log (0: not called)
Place(log, what) ==
    IF \E i \in DOMAIN log : log[i] = what
    THEN CHOOSE i \in DOMAIN log : log[i] = what
    ELSE 0

\* C3: in every frame the input calls (clear_pressed, mouse relative, event
\* polling) come before world.Step, world.Step before draw_shapes, and
\* draw_shapes before clock.tick.
C3_FrameOrder ==
    op.name = "tick" =>
        LET log == loop.frame_log
        IN  /\ Place(log, "clear_pressed") > 0
            /\ Place(log, "clear_pressed") < Place(log, "mark_mouse_relative")
            /\ Place(log, "mark_mouse_relative") < Place(log, "event_get")
            /\ Place(log, "event_get") < Place(log, "Step")
            /\ Place(log, "Step") < Place(log, "draw_shapes")
            /\ Place(log, "draw_shapes") < Place(log, "tick")


(***************************************************************************)
(* A KeyQuery on its own, under any sequence of mark_pressed,              *)
(* mark_released and clear_pressed calls.                                  *)
(***************************************************************************)
KeyMarkPressed(key) ==
    /\ io' = mark_pressed(io, key)
    /\ marks' = [marks EXCEPT !.last[key] = "pressed", !.pressed = @ \cup {key}]
    /\ op' = [name |-> "mark_pressed", self |-> 0, arg |-> key]
    /\ UNCHANGED <<objs, worldVars, regVars, filter_args, game_objects, loop>>

KeyMarkReleased(key) ==
    /\ io' = mark_released(io, key)
    /\ marks' = [marks EXCEPT !.last[key] = "released", !.released = @ \cup {key}]
    /\ op' = [name |-> "mark_released", self |-> 0, arg |-> key]
    /\ UNCHANGED <<objs, worldVars, regVars, filter_args, game_objects, loop>>

KeyClearPressed ==
    /\ io' = clear_pressed(io)
    /\ marks' = [marks EXCEPT !.pressed = {}, !.released = {}]
    /\ op' = [name |-> "clear_pressed", self |-> 0, arg |-> <<>>]
    /\ UNCHANGED <<objs, worldVars, regVars, filter_args, game_objects, loop>>

InitKeys ==
    /\ objs = <<>>
    /\ world = {}
    /\ destroy_calls = <<>>
    /\ contacts = {}
    /\ shapes = {}
    /\ drawn = {}
    /\ filter_args = <<>>
    /\ op = NoOp
    /\ MainIdle

NextKeys ==
    \/ \E key \in Keys : KeyMarkPressed(key)
    \/ \E key \in Keys : KeyMarkReleased(key)
    \/ KeyClearPressed

SpecKeys == InitKeys /\ [][NextKeys]_vars

\* C13: a key is reported down exactly when its last mark call was
\* mark_pressed (clear_pressed does not touch that), pressed exactly when
\* mark_pressed was called for it since the last clear_pressed, released
\* exactly when mark_released was; so a key pressed and not released since
\* the last clear_pressed is reported down.
C13_KeyLevelAndEdge ==
    \A k \in Keys :
        /\ is_key_down(io, k) <=> (marks.last[k] = "pressed")
        /\ is_key_pressed(io, k) <=> (k \in marks.pressed)
        /\ is_key_released(io, k) <=> (k \in marks.released)
        /\ (k \in marks.pressed /\ k \notin marks.released) => is_key_down(io, k)

\* K_d held over a clear_pressed; K_RETURN pressed and released after it
C13_Witness ==
    /\ op.name = "mark_released"
    /\ marks.last[K_d] = "pressed"
    /\ K_d \notin marks.pressed
    /\ is_key_down(io, K_d)
    /\ ~is_key_pressed(io, K_d)
    /\ is_key_pressed(io, K_RETURN)
    /\ is_key_released(io, K_RETURN)
    /\ ~is_key_down(io, K_RETURN)


(***************************************************************************)
(* One Shape of any kind and motion-kind, and calls of its set_* methods.  *)
(* op.ret is what the call returned.                                       *)
(***************************************************************************)
Colours == {WHITE, ORANGE}
Spins == {0, MaxVel}
Coefficients == {0, 1}
SetterPixels == {RatV(<<0, 0>>), RatV(<<MaxCoord, MaxCoord>>)}
SetterVelocities == {RatV(<<0, 0>>), RatV(<<MaxVel, -MaxVel>>)}

CallSetter(s, setter, o, arg) ==
    /\ Exists(s)
    /\ objs' = [objs EXCEPT ![s] = o]
    /\ op' = [name |-> setter, self |-> s, arg |-> arg, ret |-> returned(setter, s)]
    /\ UNCHANGED <<worldVars, regVars, filter_args, mainVars>>

CallSetColour(s) ==
    \E colour \in Colours :
        CallSetter(s, "set_colour", set_colour(objs[s], colour), colour)

CallSetPosition(s) ==
    \E position \in SetterPixels :
        CallSetter(s, "set_position", set_position(objs[s], position), position)

CallSetVelocity(s) ==
    \E velocity \in SetterVelocities :
        CallSetter(s, "set_velocity", set_velocity(objs[s], velocity), velocity)

CallSetAngularVelocity(s) ==
    \E angular_velocity \in Spins :
        CallSetter(s, "set_angular_velocity",
                   set_angular_velocity(objs[s], angular_velocity), angular_velocity)

CallSetDensity(s) ==
    \E density \in Coefficients :
        CallSetter(s, "set_density", set_density(objs[s], density), density)

CallSetFriction(s) ==
    \E friction \in Coefficients :
        CallSetter(s, "set_friction", set_friction(objs[s], friction), friction)

CallSetRestitution(s) ==
    \E restitution \in Coefficients :
        CallSetter(s, "set_restitution",
                   set_restitution(objs[s], restitution), restitution)

InitSetters ==
    /\ \E kind \in ShapeKinds, ct \in CollisionType :
          objs = [s \in {1} |-> Build(kind, s, ct)]
    /\ world = {1}
    /\ destroy_calls = [s \in {1} |-> 0]
    /\ contacts = {}
    /\ shapes = {}
    /\ drawn = {}
    /\ filter_args = [s \in {1} |-> NoArgs]
    /\ op = NoOp
    /\ MainIdle

NextSetters ==
    \/ CallSetColour(1)
    \/ CallSetPosition(1)
    \/ CallSetVelocity(1)
    \/ CallSetAngularVelocity(1)
    \/ CallSetDensity(1)
    \/ CallSetFriction(1)
    \/ CallSetRestitution(1)

SpecSetters == InitSetters /\ [][NextSetters]_vars

\* C14: every set_* mutator returns the Shape it was called on.
C14_SettersReturnSelf ==
    op.name \in Setters => op.ret = op.self


(***************************************************************************)
(* One whole frame of main as a function of the frame's inputs (the mouse  *)
(* movement and the events polled), on the part of the state the game      *)
(* logic reads and writes; drawing, world.Step and clock.tick change none  *)
(* of it.  Outcomes is the set of such states that some sequence of        *)
(* frames' inputs leads to.                                                *)
(***************************************************************************)
frame(p, rel, events) ==
    LET st == process_events(
                  [io |-> mark_mouse_relative(clear_pressed(p.io), rel),
                   running |-> p.running], events)
        g == game_logic(st.io, [p EXCEPT !.running = st.running],
                        p.shapes, p.game_objects)
    IN  [io |-> st.io, start_game |-> g.start_game, timer |-> g.timer,
         running |-> g.running, shapes |-> g.shapes,
         game_objects |-> g.game_objects]

RECURSIVE Outcomes(_, _)
Outcomes(seen, frontier) ==
    IF frontier = {} THEN seen
    ELSE LET next == {frame(p, rel, events) :
                          p \in {f \in frontier : f.running},
                          rel \in MouseRels, events \in EventLists}
         IN  Outcomes(seen \cup frontier, next \ (seen \cup frontier))

\* every snowball popped while the countdown has not run out
Win(p) == Cardinality(p.shapes) = 4 /\ p.timer > 0

\* C15: from the start of main (the four walls and all the snowballs
\* registered, the timer at its initial value) some sequence of inputs
\* leads to a state in which only the four walls are registered and the
\* timer has not reached 0.
C15_WinReachable ==
    op.name = "main" =>
        \E p \in Outcomes({}, {[io |-> io, start_game |-> loop.start_game,
                                timer |-> loop.timer, running |-> loop.running,
                                shapes |-> shapes, game_objects |-> game_objects]}) :
            Win(p)


Snowballs == {i \in GameIds : i > 4 /\ objs[i].kind = "Circle" /\ objs[i].body.type = "Dynamic"}
WallIds == {i \in GameIds : i <= 4 /\ objs[i].kind = "Line" /\ objs[i].body.type = "Static"}

\* C16: in every state of the game loop the registry's live set is the set
\* of the elements of game_objects and holds the four walls, so never fewer
\* than 4 shapes; a frame's game logic removes at most one shape and adds
\* none, removes one only if the game is started, D was newly pressed in
\* that frame and more than 4 shapes were registered, and the shape it
\* removes is a snowball.
C16_LiveSetAndPops ==
    /\ shapes = {game_objects[i] : i \in DOMAIN game_objects}
    /\ Cardinality(WallIds) = 4
    /\ WallIds \subseteq shapes
    /\ Cardinality(shapes) >= 4
    /\ op.name = "logic" =>
          LET removed == op.before.shapes \ shapes
          IN  /\ shapes \subseteq op.before.shapes
              /\ Cardinality(removed) <= 1
              /\ removed # {} =>
                    /\ loop.start_game
                    /\ is_key_pressed(io, K_d)
                    /\ Cardinality(op.before.shapes) > 4
                    /\ removed \subseteq Snowballs
                    /\ removed \cap world = {}

\* a second pop, in a later frame than the first
C16_Witness ==
    /\ op.name = "logic"
    /\ op.before.shapes \ shapes # {}
    /\ Cardinality(op.before.shapes) = 4 + NumSnowballs - 1
    /\ Cardinality(shapes) = 4 + NumSnowballs - 2

\* the KeyQuery states a frame's game logic can meet, by the keys newly
\* pressed
PressedStates == {[KeyQuery_init EXCEPT !.keys_pressed = ks, !.keys_down = ks] :
                      ks \in SUBSET Keys}

\* C17: the timer is never below 0; a frame's game logic lowers it by
\* exactly 1 if the game is started and the registry does not hold exactly
\* 4 shapes, and leaves it alone otherwise, and nothing else changes it; in
\* the frame in which it reaches 0 running is cleared, and the loop ends at
\* that frame's end; the started frames and the timer add up to the initial
\* timer, so a started game with snowballs left ends within that many
\* frames; with only the 4 walls registered and the timer above 0 the game
\* logic neither lowers the timer nor clears running.
C17_TimerState ==
    /\ loop.timer >= 0
    /\ op.name = "logic" =>
          /\ loop.timer = IF loop.start_game /\ Cardinality(op.before.shapes) # 4
                          THEN op.was.timer - 1 ELSE op.was.timer
          /\ (loop.start_game /\ loop.timer = 0) => ~loop.running
    /\ (op.name = "tick" /\ ~loop.running) => loop.pc = "quit"
    /\ (loop.start_game /\ loop.timer = 0) =>
          loop.pc \in {"draw", "step", "tick", "quit", "done"}
    /\ loop.frames_started <= InitialTimer
    /\ Cardinality(shapes) > 4 => loop.frames_started + loop.timer = InitialTimer
    /\ \A q \in PressedStates, started \in BOOLEAN, timer \in 1..InitialTimer :
          LET g == game_logic(q, [start_game |-> started, timer |-> timer,
                                  running |-> TRUE], 1..4, <<1, 2, 3, 4>>)
          IN  g.timer = timer /\ g.running /\ g.shapes = 1..4

C17_TimerStep == (loop'.timer # loop.timer) => (loop.pc = "logic" /\ op'.name = "logic")

C17_TimerCountdown == []C17_TimerState /\ [][C17_TimerStep]_vars

\* the frame in which the timer reaches 0
C17_Witness ==
    /\ op.name = "logic"
    /\ op.was.timer = 1
    /\ op.was.running
    /\ loop.timer = 0
    /\ ~loop.running
    /\ loop.frames_started = InitialTimer

=============================================================================
